---- MODULE Spec2Model ----
(***************************************************************************)
(* A model of the two Wildberries parsers of this repository:              *)
(*   stable-version/start.py  (Parser.run_parser and what it calls)        *)
(*   legacy-version/start.py  (Parser.__init__, Parser.run)                *)
(* Strings that the code takes apart (the user's input, a search key word) *)
(* are sequences of tokens; a JSON object is a record whose DOMAIN is the  *)
(* set of keys present; a JSON array is a sequence.                        *)
(***************************************************************************)
EXTENDS Integers, Sequences, FiniteSets, TLC

VARIABLES
    version,        \* "stable" or "legacy": which start.py runs
    mode,           \* stable run_parser: "1" (category) or "2" (key word)
    catalog_data,   \* the catalogue tree as downloaded
    user_input,     \* the category name or URL typed by the user (tokens)
    key_word,       \* stable mode "2": the search key word (tokens)
    catalogue,      \* the flattened catalogue
    category,       \* the resolved category (stable: tuple, legacy: dict) or None
    remote,         \* what the listing API holds and how it misbehaves
    remote_failures,\* transient failures the listing API has served so far
    page,           \* the loop variable of the harvest loop
    product_cards,  \* stable self.product_cards / legacy collect_products.products
    requests,       \* every URL requested from the listing API, in order
    sales_remote,   \* what the sold-quantity API answers for each card
    card_index,     \* position of get_sales_data's loop in product_cards
    pc,             \* where the run is
    exc             \* the last exception raised (swallowed by retry or propagated)

vars == <<version, mode, catalog_data, user_input, key_word, catalogue, category,
          remote, remote_failures, page, product_cards, requests, sales_remote,
          card_index, pc, exc>>

None == "None"
\* no category: category_data is None (stable), self.category is not set (legacy)
NoCategory == <<>>

----------------------------------------------------------------------------
(* Bounds of the model *)

\* pages on which a fault may be injected: 1..MaxFaultPage
MaxFaultPage == 2
\* a page of the listing holds 1..MaxPerPage products
MaxPerPage == 2
\* how many transient failures the remote serves before it answers
FailTimes == 2
\* the request log keeps StableLastPage + LogSlack entries and then stops growing
LogSlack == 3

(* Program constants *)

\* range(1, 101) in get_all_products_in_category / get_all_products_in_search_result
StableLastPage == 100
\* range(1, 51) in collect_products
LegacyLastPage == 50
\* Parser.__init__ defaults of the legacy version
min_price == 1
max_price == 1000000
discount == 0

LastPage(v) == IF v = "stable" THEN StableLastPage ELSE LegacyLastPage

----------------------------------------------------------------------------
(* The listing API.  It holds remote.k non-empty pages followed by empty   *)
(* ones; page p holds remote.sizes[..] products, numbered in listing order.*)
(* remote.fault names one page and how requests for it go wrong.           *)

NoFault == [page |-> 0, kind |-> "none"]

FaultKinds == {"transient", "always", "permanent"}

Faults == {NoFault} \cup [page : 1..MaxFaultPage, kind : FaultKinds]

Remotes(v) == [k : 0..LastPage(v), sizes : [1..2 -> 1..MaxPerPage], fault : Faults]

PageSize(r, p) == IF p <= r.k THEN r.sizes[((p - 1) % 2) + 1] ELSE 0

RECURSIVE Offset(_, _)
\* the number of products on the pages before page p
Offset(r, p) == IF p <= 1 THEN 0 ELSE Offset(r, p - 1) + PageSize(r, p - 1)

Item(n) == [id |-> n, priceU |-> n * 100 + 56]

PageBody(r, p) ==
    [data |-> [products |-> [i \in 1..PageSize(r, p) |-> Item(Offset(r, p) + i)]]]

ErrorPayload == [code |-> "400", message |-> "invalid parameters"]

HttpResponse(status, json, body) ==
    [kind |-> "http", status |-> status, json |-> json, body |-> body]

\* a fetch that fails transiently: a timeout, a 5xx answer, a body that is not JSON
TransientResponses ==
    { [kind |-> "ConnectTimeout", status |-> "", json |-> FALSE, body |-> [text |-> ""]],
      HttpResponse("500", FALSE, [text |-> "<html>"]),
      HttpResponse("502", TRUE, ErrorPayload),
      HttpResponse("200", FALSE, [text |-> ""]) }

\* the answers the listing API may give to a request for page p
Respond(r, failures, p) ==
    IF r.fault.page = p /\ r.fault.kind = "always" THEN TransientResponses
    ELSE IF r.fault.page = p /\ r.fault.kind = "transient" /\ failures < FailTimes
         THEN TransientResponses
    ELSE IF r.fault.page = p /\ r.fault.kind = "permanent"
         THEN {HttpResponse("200", TRUE, ErrorPayload)}
    ELSE {HttpResponse("200", TRUE, PageBody(r, p))}

IsTransient(resp) == resp \in TransientResponses

\* the request log: a history of the URLs requested, which stops growing when full
MaxLog == StableLastPage + LogSlack
Logged(log, url) == IF Len(log) < MaxLog THEN Append(log, url) ELSE log

Ok(v) == [raised |-> None, value |-> v]
Raise(e) == [raised |-> e, value |-> <<>>]

----------------------------------------------------------------------------
(* stable-version/start.py: the harvest                                    *)

\* get_products_on_page with a slip: a missing container read as an empty page
\* (page_data.get('data', {}).get('products', []))
get_products_on_page_lenient(page_data) ==
    IF "data" \in DOMAIN page_data /\ "products" \in DOMAIN page_data.data
    THEN Ok([i \in 1..Len(page_data.data.products) |->
               LET item == page_data.data.products[i]
               IN  [ID |-> item.id, Price |-> item.priceU \div 100]])
    ELSE Ok(<<>>)

\* one card per product of data.products; item[...] and page_data[...] raise KeyError
get_products_on_page(page_data) ==
    IF "data" \in DOMAIN page_data /\ "products" \in DOMAIN page_data.data
    THEN Ok([i \in 1..Len(page_data.data.products) |->
               LET item == page_data.data.products[i]
               IN  [ID |-> item.id, Price |-> item.priceU \div 100]])
    ELSE Raise("KeyError")

\* requests.get(url).json(): the JSON value of the answer, or the exception
response_json(resp) ==
    IF resp.kind # "http" THEN Raise(resp.kind)
    ELSE IF ~resp.json THEN Raise("JSONDecodeError")
    ELSE Ok(resp.body)

\* add_data_from_page with a slip: the "return True" of the empty page left out
add_data_from_page_no_return(resp, cards) ==
    LET response == response_json(resp)
        page_data == get_products_on_page(response.value)
    IN  IF response.raised # None
        THEN [raised |-> response.raised, cards |-> cards, value |-> FALSE]
        ELSE IF page_data.raised # None
        THEN [raised |-> page_data.raised, cards |-> cards, value |-> FALSE]
        ELSE [raised |-> None, cards |-> cards \o page_data.value, value |-> FALSE]

\* add_data_from_page: [raised, cards, value], value = True when the page is empty
add_data_from_page(resp, cards) ==
    LET response == response_json(resp)
        page_data == get_products_on_page(response.value)
    IN  IF response.raised # None
        THEN [raised |-> response.raised, cards |-> cards, value |-> FALSE]
        ELSE IF page_data.raised # None
        THEN [raised |-> page_data.raised, cards |-> cards, value |-> FALSE]
        ELSE IF page_data.value # <<>>
        THEN [raised |-> None, cards |-> cards \o page_data.value, value |-> FALSE]
        ELSE [raised |-> None, cards |-> cards, value |-> TRUE]

build_catalogue_url(category_data, p) ==
    <<"catalog.wb.ru/catalog", category_data[2], category_data[3], p>>

\* key_word.split(): the words between runs of white space
split(s) == SelectSeq(s, LAMBDA t : t # " ")

RECURSIVE join(_, _)
join(sep, words) ==
    IF Len(words) <= 1 THEN words
    ELSE <<Head(words), sep>> \o join(sep, Tail(words))

build_search_url(kw, p) == <<"search.wb.ru/search", p, join("%20", split(kw))>>

StableUrl(p) ==
    IF mode = "1" THEN build_catalogue_url(category, p) ELSE build_search_url(key_word, p)

\* one iteration of "for page in range(1, 101)" in get_all_products_in_category
\* or get_all_products_in_search_result
StableHarvestPage ==
    /\ pc = "harvest"
    /\ version = "stable"
    /\ \E resp \in Respond(remote, remote_failures, page) :
         LET r == add_data_from_page(resp, product_cards)
         IN  /\ requests' = Logged(requests, StableUrl(page))
             /\ remote_failures' =
                  IF IsTransient(resp) /\ remote_failures < FailTimes
                  THEN remote_failures + 1 ELSE remote_failures
             /\ product_cards' = r.cards
             /\ exc' = r.raised
             /\ pc' = IF r.raised # None THEN "raised"
                      ELSE IF r.value \/ page = StableLastPage THEN "sales"
                      ELSE "harvest"
             /\ page' = IF r.raised = None /\ ~r.value /\ page < StableLastPage
                        THEN page + 1 ELSE page
    /\ UNCHANGED <<version, mode, catalog_data, user_input, key_word, catalogue,
                   category, remote, sales_remote, card_index>>

----------------------------------------------------------------------------
(* legacy-version/start.py: the harvest                                    *)

\* one record per product of data.products; json_data['data']['products'] raises KeyError
extract_product_data(json_data) ==
    IF "data" \in DOMAIN json_data /\ "products" \in DOMAIN json_data.data
    THEN Ok([i \in 1..Len(json_data.data.products) |->
               LET item == json_data.data.products[i]
               IN  [id |-> item.id, price |-> item.priceU \div 100]])
    ELSE Raise("KeyError")

\* the URL scrape_page requests; the f-string renders an absent shard or query as "None"
scrape_page_url(cat, p) ==
    <<"catalog.wb.ru/catalog", cat.shard, p, min_price * 100, max_price * 100,
      cat.query, discount>>

\* @retry(Exception, tries=-1, delay=0): every exception scrape_page raises is
\* retried at once, without a limit
retry(e) == TRUE

\* one attempt of scrape_page and, when it returns, the rest of the iteration of
\* "for page in range(1, 51)" in collect_products
LegacyCollectPage ==
    /\ pc = "harvest"
    /\ version = "legacy"
    /\ \E resp \in Respond(remote, remote_failures, page) :
         LET data == response_json(resp)
             product_list == extract_product_data(data.value)
             retried == data.raised # None /\ retry(data.raised)
             raised == IF data.raised # None THEN data.raised ELSE product_list.raised
             more == raised = None /\ product_list.value # <<>>
         IN  /\ requests' = Logged(requests, scrape_page_url(category, page))
             /\ remote_failures' =
                  IF IsTransient(resp) /\ remote_failures < FailTimes
                  THEN remote_failures + 1 ELSE remote_failures
             /\ exc' = raised
             /\ product_cards' = IF more THEN product_cards \o product_list.value
                                 ELSE product_cards
             /\ pc' = IF retried THEN "harvest"
                      ELSE IF raised # None THEN "raised"
                      ELSE IF more /\ page < LegacyLastPage THEN "harvest"
                      ELSE "save"
             /\ page' = IF more /\ page < LegacyLastPage THEN page + 1 ELSE page
    /\ UNCHANGED <<version, mode, catalog_data, user_input, key_word, catalogue,
                   category, remote, sales_remote, card_index>>

----------------------------------------------------------------------------
(* The harvest on its own: the run from the point where the category (or   *)
(* the key word) is known and the first page is about to be requested.     *)

ResolvedEntry == [name |-> "A", url |-> "/a", shard |-> "s1", query |-> "cat=1"]

KeyWords == {<<"red", " ", "shoes">>}

\* everything but the remote
HarvestStart ==
    /\ version \in {"stable", "legacy"}
    /\ mode \in IF version = "stable" THEN {"1", "2"} ELSE {"1"}
    /\ catalog_data = <<>>
    /\ user_input = IF mode = "1" THEN <<"A">> ELSE <<>>
    /\ key_word \in IF mode = "2" THEN KeyWords ELSE {<<>>}
    /\ catalogue = IF mode = "1" THEN <<ResolvedEntry>> ELSE <<>>
    /\ category = IF mode = "2" THEN NoCategory
                  ELSE IF version = "stable"
                  THEN <<ResolvedEntry.name, ResolvedEntry.shard, ResolvedEntry.query>>
                  ELSE ResolvedEntry
    /\ remote_failures = 0
    /\ page = 1
    /\ product_cards = <<>>
    /\ requests = <<>>
    /\ sales_remote = <<>>
    /\ card_index = 0
    /\ pc = "harvest"
    /\ exc = None

Init ==
    /\ HarvestStart
    /\ remote \in Remotes(version)

Next == StableHarvestPage \/ LegacyCollectPage

Spec == Init /\ [][Next]_vars

\* The harvest against a listing with a page on which every attempt fails.  The
\* loop is sequential code that never pauses of its own accord: a step that can
\* be taken is taken.
RetryInit ==
    /\ HarvestStart
    /\ remote \in {r \in Remotes(version) :
                     r.fault.kind = "always" /\ r.k <= MaxFaultPage}

FairSpec == RetryInit /\ [][Next]_vars /\ WF_vars(Next)

----------------------------------------------------------------------------
(* The catalogue: a JSON array of category objects, each with some of the  *)
(* keys name, url, shard, query and childs (a JSON array again).           *)

\* a catalogue holds at most MaxNodes category objects
MaxNodes == 2
\* the user's input is at most MaxInputLen tokens long
MaxInputLen == 2

SitePrefix == "https://www.wildberries.ru"

Labels == {<<"A", "/a">>, <<"A", "/b">>, <<"B", "/a">>}

\* the keys of a category object other than childs
NodeFields ==
    UNION { { [name |-> l[1], url |-> l[2], shard |-> "s1", query |-> "cat=1"],
              [name |-> l[1], url |-> l[2], shard |-> "s2", query |-> "cat=2"],
              [name |-> l[1], url |-> l[2], query |-> "cat=1"],
              [name |-> l[1], url |-> l[2], shard |-> "s1"] } : l \in Labels }
    \cup { [url |-> "/a", shard |-> "s1", query |-> "cat=1"],
           [name |-> "A", shard |-> "s1", query |-> "cat=1"] }

RECURSIVE TreesOf(_)
RECURSIVE ForestsOf(_)
\* the category objects with n objects in all, n >= 1
TreesOf(n) ==
    IF n = 1 THEN NodeFields
    ELSE { f @@ ("childs" :> kids) : f \in NodeFields, kids \in ForestsOf(n - 1) }
\* the JSON arrays of category objects with n objects in all
ForestsOf(n) ==
    IF n = 0 THEN {<<>>}
    ELSE UNION { { <<t>> \o rest : t \in TreesOf(m), rest \in ForestsOf(n - m) } :
                 m \in 1..n }

Catalogues == UNION { ForestsOf(n) : n \in 0..MaxNodes }

InputTokens == {SitePrefix, "/a", "A"}

UserInputs == UNION { [1..n -> InputTokens] : n \in 1..MaxInputLen }

\* dict.get(key, None)
Get(d, key) == IF key \in DOMAIN d THEN d[key] ELSE None

\* s.split("https://www.wildberries.ru")[-1]: what follows the last site prefix
AfterSitePrefix(s) ==
    LET at == {i \in 1..Len(s) : s[i] = SitePrefix}
    IN  IF at = {} THEN s
        ELSE SubSeq(s, (CHOOSE i \in at : \A j \in at : j <= i) + 1, Len(s))

----------------------------------------------------------------------------
(* stable-version/start.py: the catalogue                                  *)

RECURSIVE traverse_json(_, _)
\* "for category in parent_category": append the category when it has all four
\* keys, else continue (which also skips its childs); then its childs
traverse_json(parent_category, flattened_catalogue) ==
    IF parent_category = <<>> THEN flattened_catalogue
    ELSE LET category_ == Head(parent_category)
             complete == {"name", "url", "shard", "query"} \subseteq DOMAIN category_
             appended ==
                 IF complete
                 THEN Append(flattened_catalogue,
                             [name |-> category_.name, url |-> category_.url,
                              shard |-> category_.shard, query |-> category_.query])
                 ELSE flattened_catalogue
             after ==
                 IF complete /\ "childs" \in DOMAIN category_
                 THEN traverse_json(category_.childs, appended)
                 ELSE appended
         IN  traverse_json(Tail(parent_category), after)

process_catalogue(tree) == traverse_json(tree, <<>>)

RECURSIVE extract_category_data_strips_name(_, _)
\* extract_category_data with a slip: the name compared with the input after
\* the site prefix, as the url is
extract_category_data_strips_name(cat_list, input) ==
    IF cat_list = <<>> THEN NoCategory
    ELSE LET c == Head(cat_list)
         IN  IF AfterSitePrefix(input) = <<c.url>> \/ AfterSitePrefix(input) = <<c.name>>
             THEN <<c.name, c.shard, c.query>>
             ELSE extract_category_data_strips_name(Tail(cat_list), input)

RECURSIVE stable_extract_category_data(_, _)
\* the first category whose url is the input after the site prefix or whose
\* name is the input, as (name, shard, query); no category when there is none
stable_extract_category_data(cat_list, input) ==
    IF cat_list = <<>> THEN NoCategory
    ELSE LET c == Head(cat_list)
         IN  IF AfterSitePrefix(input) = <<c.url>> \/ input = <<c.name>>
             THEN <<c.name, c.shard, c.query>>
             ELSE stable_extract_category_data(Tail(cat_list), input)

\* run_parser, mode 1: process_catalogue
ProcessCatalogue ==
    /\ pc = "flatten"
    /\ version = "stable"
    /\ catalogue' = process_catalogue(catalog_data)
    /\ pc' = "resolve"
    /\ UNCHANGED <<version, mode, catalog_data, user_input, key_word, category,
                   remote, remote_failures, page, product_cards, requests,
                   sales_remote, card_index, exc>>

\* run_parser, mode 1: extract_category_data and the branch on its result
ExtractCategory ==
    /\ pc = "resolve"
    /\ version = "stable"
    /\ category' = stable_extract_category_data(catalogue, user_input)
    /\ pc' = IF category' # NoCategory THEN "harvest" ELSE "done"
    /\ UNCHANGED <<version, mode, catalog_data, user_input, key_word, catalogue,
                   remote, remote_failures, page, product_cards, requests,
                   sales_remote, card_index, exc>>

----------------------------------------------------------------------------
(* legacy-version/start.py: the catalogue                                  *)

RECURSIVE legacy_extract_category_data(_)
RECURSIVE legacy_extract_category_dict(_)
\* extract_category_data on a dict (isinstance(catalog, dict)): its own entry
\* (catalog['name'] and catalog['url'] raise KeyError), then those of its childs
legacy_extract_category_dict(catalog) ==
    IF ~({"name", "url"} \subseteq DOMAIN catalog) THEN Raise("KeyError")
    ELSE LET entry == [name |-> catalog.name, shard |-> Get(catalog, "shard"),
                       url |-> catalog.url, query |-> Get(catalog, "query")]
             below == legacy_extract_category_data(catalog.childs)
         IN  IF "childs" \notin DOMAIN catalog THEN Ok(<<entry>>)
             ELSE IF below.raised # None THEN below
             ELSE Ok(<<entry>> \o below.value)
\* extract_category_data on a list (the else branch): the entries of its
\* elements, which are dicts, in order
legacy_extract_category_data(catalog) ==
    IF catalog = <<>> THEN Ok(<<>>)
    ELSE LET first == legacy_extract_category_dict(Head(catalog))
             others == legacy_extract_category_data(Tail(catalog))
         IN  IF first.raised # None THEN first
             ELSE IF others.raised # None THEN others
             ELSE Ok(first.value \o others.value)

RECURSIVE first_url_match(_, _)
\* the loop of find_category_in_catalog: the first entry whose url is the input
\* after the site prefix; ValueError when there is none
first_url_match(catalog_list, url) ==
    IF catalog_list = <<>> THEN Raise("ValueError")
    ELSE IF <<Head(catalog_list).url>> = AfterSitePrefix(url) THEN Ok(Head(catalog_list))
    ELSE first_url_match(Tail(catalog_list), url)

find_category_in_catalog(tree, url) ==
    LET catalog_list == legacy_extract_category_data(tree)
    IN  IF catalog_list.raised # None THEN catalog_list
        ELSE first_url_match(catalog_list.value, url)

\* Parser.__init__: self.category = self.find_category_in_catalog(); then run()
FindCategoryInCatalog ==
    /\ pc = "flatten"
    /\ version = "legacy"
    /\ LET catalog_list == legacy_extract_category_data(catalog_data)
           found == find_category_in_catalog(catalog_data, user_input)
       IN  /\ catalogue' = catalog_list.value
           /\ exc' = found.raised
           /\ category' = IF found.raised = None THEN found.value ELSE category
           /\ pc' = IF found.raised = None THEN "harvest" ELSE "raised"
    /\ UNCHANGED <<version, mode, catalog_data, user_input, key_word, remote,
                   remote_failures, page, product_cards, requests, sales_remote,
                   card_index>>

----------------------------------------------------------------------------
(* The run from the downloaded catalogue and the user's input to the end   *)
(* of the harvest, against a listing of one page with one product.         *)

CatalogueRemote == [k |-> 1, sizes |-> <<1, 1>>, fault |-> NoFault]

CatalogueInit ==
    /\ version \in {"stable", "legacy"}
    /\ mode = "1"
    /\ catalog_data \in Catalogues
    /\ user_input \in UserInputs
    /\ key_word = <<>>
    /\ catalogue = <<>>
    /\ category = NoCategory
    /\ remote = CatalogueRemote
    /\ remote_failures = 0
    /\ page = 1
    /\ product_cards = <<>>
    /\ requests = <<>>
    /\ sales_remote = <<>>
    /\ card_index = 0
    /\ pc = "flatten"
    /\ exc = None

CatalogueNext ==
    \/ ProcessCatalogue
    \/ ExtractCategory
    \/ FindCategoryInCatalog
    \/ StableHarvestPage
    \/ LegacyCollectPage

CatalogueSpec == CatalogueInit /\ [][CatalogueNext]_vars

\* the records of the listing, as the harvest accumulates them
PageCards(v, r, p) ==
    IF v = "stable" THEN get_products_on_page(PageBody(r, p)).value
    ELSE extract_product_data(PageBody(r, p)).value

RECURSIVE Collected(_, _, _)
\* the records of pages 1..n, in page order then in-page order
Collected(v, r, n) ==
    IF n = 0 THEN <<>> ELSE Collected(v, r, n - 1) \o PageCards(v, r, n)

----------------------------------------------------------------------------
(* stable-version/start.py: the sold quantities                            *)

\* get_sales_data is run on at most MaxCards product cards
MaxCards == 3

\* what the sold-quantity API may answer for one product; a quantity is data the
\* code only copies, written here as a numeral
SalesAnswers ==
    { [kind |-> "http", json |-> TRUE, body |-> <<[nm |-> "1", qnt |-> "0"]>>],
      [kind |-> "http", json |-> TRUE, body |-> <<[nm |-> "1", qnt |-> "7"]>>],
      [kind |-> "http", json |-> TRUE, body |-> <<[nm |-> "1"]>>],
      [kind |-> "http", json |-> TRUE, body |-> <<>>],
      [kind |-> "http", json |-> FALSE, body |-> <<>>],
      [kind |-> "ConnectTimeout", json |-> FALSE, body |-> <<>>],
      [kind |-> "ReadTimeout", json |-> FALSE, body |-> <<>>],
      [kind |-> "ConnectionError", json |-> FALSE, body |-> <<>>] }

\* requests.get(url).json()[0]['qnt']
sold_quantity(resp) ==
    IF resp.kind # "http" THEN Raise(resp.kind)
    ELSE IF ~resp.json THEN Raise("JSONDecodeError")
    ELSE IF resp.body = <<>> THEN Raise("IndexError")
    ELSE IF "qnt" \notin DOMAIN resp.body[1] THEN Raise("KeyError")
    ELSE Ok(resp.body[1].qnt)

\* "except requests.ConnectTimeout"
caught(e) == e = "ConnectTimeout"

\* one iteration of "for card in self.product_cards" in get_sales_data, or the
\* end of the loop
GetSalesData ==
    /\ pc = "sales"
    /\ version = "stable"
    /\ IF card_index = Len(product_cards)
       THEN /\ pc' = "save"
            /\ UNCHANGED <<product_cards, card_index, exc>>
       ELSE LET i == card_index + 1
                qnt == sold_quantity(sales_remote[i])
                Selled == IF qnt.raised = None THEN qnt.value ELSE "no data"
            IN  IF qnt.raised # None /\ ~caught(qnt.raised)
                THEN /\ pc' = "raised"
                     /\ exc' = qnt.raised
                     /\ UNCHANGED <<product_cards, card_index>>
                ELSE /\ product_cards' =
                          [product_cards EXCEPT ![i] = @ @@ ("Selled" :> Selled)]
                     /\ card_index' = i
                     /\ exc' = qnt.raised
                     /\ pc' = IF i = Len(product_cards) THEN "save" ELSE "sales"
    /\ UNCHANGED <<version, mode, catalog_data, user_input, key_word, catalogue,
                   category, remote, remote_failures, page, requests, sales_remote>>

\* The run from the end of a key word harvest that found n products on n pages.
SalesInit ==
    /\ version = "stable"
    /\ mode = "2"
    /\ catalog_data = <<>>
    /\ user_input = <<>>
    /\ key_word \in KeyWords
    /\ catalogue = <<>>
    /\ category = NoCategory
    /\ \E n \in 0..MaxCards :
         /\ remote = [k |-> n, sizes |-> <<1, 1>>, fault |-> NoFault]
         /\ page = n + 1
         /\ sales_remote \in [1..n -> SalesAnswers]
    /\ remote_failures = 0
    /\ product_cards = Collected(version, remote, remote.k)
    /\ requests = [p \in 1..page |-> build_search_url(key_word, p)]
    /\ card_index = 0
    /\ pc = "sales"
    /\ exc = None

SalesNext == GetSalesData

SalesSpec == SalesInit /\ [][SalesNext]_vars

----------------------------------------------------------------------------
(* Properties of the harvest                                                 *)

\* the harvest loop has returned to its caller
Harvested == pc \in {"sales", "save"}

\* the URL the running version requests for page p
PageUrl(p) == IF version = "stable" THEN StableUrl(p) ELSE scrape_page_url(category, p)

\* what the caller of the harvest has in hand when it returns: the stable loop
\* returns None and leaves self.product_cards, the legacy loop returns products
CallerView(v, cards) ==
    IF v = "stable" THEN [returned |-> None, product_cards |-> cards]
    ELSE [returned |-> cards, product_cards |-> <<>>]

\* C1: with no failing fetch, k non-empty pages and an empty page k+1 within the
\* ceiling, the harvest requests pages 1..k+1 once each, in order, then stops
\* with as many records as pages 1..k hold; until then it has requested
\* exactly the pages before the current one.
C1_FetchesUntilEmptyPage ==
    (remote.fault = NoFault /\ remote.k + 1 <= LastPage(version)) =>
        /\ pc # "raised"
        /\ pc = "harvest" =>
              /\ page <= remote.k + 1
              /\ requests = [p \in 1..(page - 1) |-> PageUrl(p)]
        /\ Harvested =>
              /\ requests = [p \in 1..(remote.k + 1) |-> PageUrl(p)]
              /\ Len(product_cards) = Offset(remote, remote.k + 1)

C1_Witness ==
    /\ remote.fault = NoFault
    /\ remote.k = 3
    /\ remote.sizes = <<1, 2>>
    /\ Harvested
    /\ Len(requests) = 4
    /\ Len(product_cards) = 4

\* C2: when no page within the ceiling is empty, the harvest stops after
\* exactly as many requests as the ceiling, and what its caller has in hand
\* differs from what any harvest that ended on an empty page leaves.
C2_CeilingReported ==
    (Harvested /\ remote.fault = NoFault /\ remote.k = LastPage(version)) =>
        /\ Len(requests) = LastPage(version)
        /\ \A r \in Remotes(version) :
              (r.fault = NoFault /\ r.k < LastPage(version)) =>
                  CallerView(version, Collected(version, r, r.k))
                      # CallerView(version, product_cards)

\* C3: a run in which a page fails transiently FailTimes times and then
\* succeeds ends as the run without failures does: harvest returned, with the
\* records of every page, in order.
C3_RetriesTransparent ==
    (remote.fault.kind = "transient" /\ pc # "harvest") =>
        /\ Harvested
        /\ product_cards = Collected(version, remote, remote.k)

\* C4: a well-formed answer without data.products for page p aborts the
\* harvest with an error: page p is requested once, nothing is requested
\* after it, the records of pages 1..p-1 are all there is, and the harvest
\* never returns normally unless it ended before page p.
C4_PermanentErrorAborts ==
    remote.fault.kind = "permanent" =>
        /\ pc = "harvest" =>
              /\ page <= remote.fault.page
              /\ Len(requests) = page - 1
        /\ pc = "raised" =>
              /\ exc = "KeyError"
              /\ page = remote.fault.page
              /\ requests = [p \in 1..remote.fault.page |-> PageUrl(p)]
              /\ product_cards = Collected(version, remote, page - 1)
        /\ Harvested => remote.k + 1 < remote.fault.page

C4_Witness ==
    /\ remote.fault = [page |-> 2, kind |-> "permanent"]
    /\ version = "legacy"
    /\ pc = "raised"
    /\ Len(requests) = 2
    /\ Len(product_cards) > 0

\* C5: when every attempt to fetch a page that the harvest reaches fails
\* transiently, the harvest eventually ends, and ends in a failure.
C5_RetriesExhaust ==
    (remote.fault.kind = "always" /\ remote.fault.page <= remote.k + 1)
        ~> (pc = "raised")

----------------------------------------------------------------------------
(* Properties of flattening and resolution                                  *)

RECURSIVE PreOrder(_)
\* the category objects of a catalogue, each before its childs, siblings in order
PreOrder(forest) ==
    IF forest = <<>> THEN <<>>
    ELSE <<Head(forest)>>
         \o (IF "childs" \in DOMAIN Head(forest) THEN PreOrder(Head(forest).childs)
             ELSE <<>>)
         \o PreOrder(Tail(forest))

HasNameAndUrl(n) == {"name", "url"} \subseteq DOMAIN n

\* the input names the category object n, by url or by name
Names(input, n) ==
    HasNameAndUrl(n) /\ (<<n.url>> = AfterSitePrefix(input) \/ <<n.name>> = input)

Flattened == pc # "flatten"

FlattenRaised == version = "legacy" /\ pc = "raised" /\ exc = "KeyError"

ResolutionOver == pc \notin {"flatten", "resolve"}

\* a category has been resolved
HasCategory == category # NoCategory

CategoryShard == IF version = "stable" THEN category[2] ELSE category.shard
CategoryQuery == IF version = "stable" THEN category[3] ELSE category.query

\* the resolved category is the category object n
ResolvedAs(n) ==
    IF version = "stable"
    THEN category = <<n.name, Get(n, "shard"), Get(n, "query")>>
    ELSE category = [name |-> n.name, shard |-> Get(n, "shard"),
                     url |-> n.url, query |-> Get(n, "query")]

\* C6: flattening raises nothing and emits as many entries as the catalogue
\* has category objects with both a name and a url.
C6_FlattenCountsNamedNodes ==
    Flattened =>
        /\ ~FlattenRaised
        /\ Len(catalogue) = Len(SelectSeq(PreOrder(catalog_data), HasNameAndUrl))

\* C7: when some category object with a name and a url is named by the input,
\* the category resolved is the first such object in pre-order.
C7_FirstMatchInPreOrder ==
    LET named == SelectSeq(PreOrder(catalog_data), LAMBDA n : Names(user_input, n))
    IN  (ResolutionOver /\ named # <<>>) =>
            /\ HasCategory
            /\ ResolvedAs(named[1])

\* C8: a resolved category without a shard or without a query is never turned
\* into a listing request: nothing is requested, and the harvest does not
\* go through.
C8_NoRequestWithoutShardOrQuery ==
    (ResolutionOver /\ HasCategory
       /\ (CategoryShard = None \/ CategoryQuery = None)) =>
        /\ requests = <<>>
        /\ pc \in {"harvest", "raised"}

\* C9: when the input is the url (after the site prefix) of no entry of the
\* flattened catalogue and the name of none, resolution ends in the not-found
\* outcome (stable: None and the run ends; legacy: ValueError), no category is
\* resolved and nothing is ever requested.
C9_NotFound ==
    (ResolutionOver /\ ~FlattenRaised
       /\ \A i \in 1..Len(catalogue) :
             /\ <<catalogue[i].url>> # AfterSitePrefix(user_input)
             /\ <<catalogue[i].name>> # user_input) =>
        /\ requests = <<>>
        /\ ~HasCategory
        /\ IF version = "stable" THEN pc = "done"
           ELSE pc = "raised" /\ exc = "ValueError"

C9_Witness ==
    /\ version = "stable"
    /\ pc = "done"
    /\ Len(catalogue) = 2
    /\ user_input = <<SitePrefix, "A">>
    /\ catalogue[2].name = "A"
    /\ ~HasCategory
    /\ requests = <<>>

----------------------------------------------------------------------------
(* Properties of the sold-quantity enrichment                               *)

\* the follow-up fetch for a product fails: a timeout, another network error, a
\* body that is not JSON, an empty list, a first element without qnt
FetchFails(answer) ==
    \/ answer.kind # "http"
    \/ ~answer.json
    \/ answer.body = <<>>
    \/ "qnt" \notin DOMAIN answer.body[1]

\* C10: when the fetch for exactly one card fails, get_sales_data runs to its
\* end over all the cards, in their order, the card whose fetch failed carrying
\* the sentinel 'no data' and every other card the quantity returned for it.
C10_FailureIsolated ==
    (pc # "sales"
       /\ Cardinality({i \in 1..Len(sales_remote) : FetchFails(sales_remote[i])}) = 1) =>
        /\ pc = "save"
        /\ Len(product_cards) = Len(sales_remote)
        /\ \A i \in 1..Len(product_cards) :
              /\ product_cards[i].ID = i
              /\ product_cards[i].Price = (i * 100 + 56) \div 100
              /\ product_cards[i].Selled =
                    IF FetchFails(sales_remote[i]) THEN "no data"
                    ELSE sales_remote[i].body[1].qnt

====
